---------------------------- MODULE Spec2Model ----------------------------
(***************************************************************************)
(* A model of parser.py, the UIDAI ingestion pipeline: the region          *)
(* canonicalization resolver (canonicalize_region), the multi-strategy     *)
(* date parser (parse_dates_strong), the merge-append storage engine       *)
(* (merge_write_dataset) and the per-run driver (main).                    *)
(*                                                                         *)
(* Text is modelled as a sequence of one-character strings, so that the    *)
(* character-level functions of the source (_key, norm_title,              *)
(* norm_pincode, the regular expressions, difflib's similarity ratio, the  *)
(* CSV round trip) are computed rather than assumed.                       *)
(***************************************************************************)
EXTENDS Integers, Sequences, FiniteSets, TLC

VARIABLES
  \* one call of canonicalize_region: its arguments, its result, its position
  rgState, rgDistrict, rgResult, rgPc,
  \* one call of parse_dates_strong: the column given, the build's way of
  \* parsing (see to_datetime), the locals s, d, fixed, the index of the format
  \* the loop is at, and the position in the function
  dtSeries, dtInfer, dtS, dtD, dtFixed, dtFmt, dtPc,
  \* calls of merge_write_dataset on one table: the file at out_path now and
  \* before the last call, the rows (sdf) the last call was given, its combined
  \* frame (line 373/375) and the frame it wrote (line 379), how it ended,
  \* whether it repeated the call before it, and the number of calls so far
  stFile, stPrev, stRows, stConcat, stKept, stOutcome, stRepeat, stCalls,
  \* one run of main: the files of INPUT_DIR, the listing main works through
  \* (files), the build's way of parsing dates, the position in main, the
  \* number of files the loop has finished, the exception that ended the run,
  \* the table files under OUTPUT_DIR by path, global_counts, and the sanity
  \* line of the report once it is written
  mnInput, mnFiles, mnInfer, mnPc, mnDone, mnError, mnTables, mnCounts, mnReport

regionVars == <<rgState, rgDistrict, rgResult, rgPc>>
dateVars == <<dtSeries, dtInfer, dtS, dtD, dtFixed, dtFmt, dtPc>>
storeVars == <<stFile, stPrev, stRows, stConcat, stKept, stOutcome, stRepeat, stCalls>>
mainVars == <<mnInput, mnFiles, mnInfer, mnPc, mnDone, mnError, mnTables, mnCounts, mnReport>>
vars == <<regionVars, dateVars, storeVars, mainVars>>

----------------------------------------------------------------------------
(* Characters and text                                                     *)

Lowers == <<"a","b","c","d","e","f","g","h","i","j","k","l","m",
            "n","o","p","q","r","s","t","u","v","w","x","y","z">>
Uppers == <<"A","B","C","D","E","F","G","H","I","J","K","L","M",
            "N","O","P","Q","R","S","T","U","V","W","X","Y","Z">>
Digits == <<"0","1","2","3","4","5","6","7","8","9">>

Range(f) == { f[i] : i \in DOMAIN f }
IndexOf(seq, c) == CHOOSE i \in DOMAIN seq : seq[i] = c

IsLower(c) == c \in Range(Lowers)
IsUpper(c) == c \in Range(Uppers)
IsDigit(c) == c \in Range(Digits)
IsSpace(c) == c \in {" ", "\t", "\n"}

ToLower(c) == IF IsUpper(c) THEN Lowers[IndexOf(Uppers, c)] ELSE c
ToUpper(c) == IF IsLower(c) THEN Uppers[IndexOf(Lowers, c)] ELSE c

\* str.lower()
lower(s) == [i \in DOMAIN s |-> ToLower(s[i])]

\* str.strip()
RECURSIVE lstrip(_)
lstrip(s) == IF s # <<>> /\ IsSpace(Head(s)) THEN lstrip(Tail(s)) ELSE s
RECURSIVE rstrip(_)
rstrip(s) ==
  IF s # <<>> /\ IsSpace(s[Len(s)]) THEN rstrip(SubSeq(s, 1, Len(s) - 1)) ELSE s
strip(s) == rstrip(lstrip(s))

\* s.replace(c, r) for a one-character c and a text r
RECURSIVE replace(_, _, _)
replace(s, c, r) ==
  IF s = <<>> THEN <<>>
  ELSE (IF Head(s) = c THEN r ELSE <<Head(s)>>) \o replace(Tail(s), c, r)

\* "sub in s" of Python
Contains(s, sub) ==
  \E i \in 1..(Len(s) - Len(sub) + 1) : SubSeq(s, i, i + Len(sub) - 1) = sub

AllDigits(s) == \A i \in DOMAIN s : IsDigit(s[i])

Min(a, b) == IF a < b THEN a ELSE b

\* Body(v), with v evaluated once (a local variable of the source)
Let(v, Body(_)) == CHOOSE r \in { Body(x) : x \in {v} } : TRUE

----------------------------------------------------------------------------
(* The canonical names and the static tables                               *)

STATES_28 ==
  << <<"A","n","d","h","r","a"," ","P","r","a","d","e","s","h">>,
    <<"A","r","u","n","a","c","h","a","l"," ","P","r","a","d","e","s","h">>,
    <<"A","s","s","a","m">>,
    <<"B","i","h","a","r">>,
    <<"C","h","h","a","t","t","i","s","g","a","r","h">>,
    <<"G","o","a">>,
    <<"G","u","j","a","r","a","t">>,
    <<"H","a","r","y","a","n","a">>,
    <<"H","i","m","a","c","h","a","l"," ","P","r","a","d","e","s","h">>,
    <<"J","h","a","r","k","h","a","n","d">>,
    <<"K","a","r","n","a","t","a","k","a">>,
    <<"K","e","r","a","l","a">>,
    <<"M","a","d","h","y","a"," ","P","r","a","d","e","s","h">>,
    <<"M","a","h","a","r","a","s","h","t","r","a">>,
    <<"M","a","n","i","p","u","r">>,
    <<"M","e","g","h","a","l","a","y","a">>,
    <<"M","i","z","o","r","a","m">>,
    <<"N","a","g","a","l","a","n","d">>,
    <<"O","d","i","s","h","a">>,
    <<"P","u","n","j","a","b">>,
    <<"R","a","j","a","s","t","h","a","n">>,
    <<"S","i","k","k","i","m">>,
    <<"T","a","m","i","l"," ","N","a","d","u">>,
    <<"T","e","l","a","n","g","a","n","a">>,
    <<"T","r","i","p","u","r","a">>,
    <<"U","t","t","a","r"," ","P","r","a","d","e","s","h">>,
    <<"U","t","t","a","r","a","k","h","a","n","d">>,
    <<"W","e","s","t"," ","B","e","n","g","a","l">> >>

UTS_8 ==
  << <<"A","n","d","a","m","a","n"," ","A","n","d"," ","N","i","c","o","b","a","r"," ","I","s","l","a","n","d","s">>,
    <<"C","h","a","n","d","i","g","a","r","h">>,
    <<"D","a","d","r","a"," ","A","n","d"," ","N","a","g","a","r"," ","H","a","v","e","l","i"," ","A","n","d"," ","D","a","m","a","n"," ","A","n","d"," ","D","i","u">>,
    <<"D","e","l","h","i">>,
    <<"J","a","m","m","u"," ","A","n","d"," ","K","a","s","h","m","i","r">>,
    <<"L","a","d","a","k","h">>,
    <<"L","a","k","s","h","a","d","w","e","e","p">>,
    <<"P","u","d","u","c","h","e","r","r","y">> >>

REGION_ALIASES ==
  { <<<<"t","a","m","i","l","n","a","d","u">>,
      <<"T","a","m","i","l"," ","N","a","d","u">>>>,
    <<<<"w","e","s","t","b","e","n","g","a","l">>,
      <<"W","e","s","t"," ","B","e","n","g","a","l">>>>,
    <<<<"c","h","a","t","t","i","s","g","a","r","h">>,
      <<"C","h","h","a","t","t","i","s","g","a","r","h">>>>,
    <<<<"c","h","h","a","t","i","s","h","g","a","r","h">>,
      <<"C","h","h","a","t","t","i","s","g","a","r","h">>>>,
    <<<<"u","t","t","a","r","a","n","c","h","a","l">>,
      <<"U","t","t","a","r","a","k","h","a","n","d">>>>,
    <<<<"o","r","i","s","s","a">>,
      <<"O","d","i","s","h","a">>>>,
    <<<<"t","e","l","e","n","g","a","n","a">>,
      <<"T","e","l","a","n","g","a","n","a">>>>,
    <<<<"n","c","t","o","f","d","e","l","h","i">>,
      <<"D","e","l","h","i">>>>,
    <<<<"d","e","l","h","i","n","c","t">>,
      <<"D","e","l","h","i">>>>,
    <<<<"n","e","w","d","e","l","h","i">>,
      <<"D","e","l","h","i">>>>,
    <<<<"a","n","d","a","m","a","n","n","i","c","o","b","a","r","i","s","l","a","n","d","s">>,
      <<"A","n","d","a","m","a","n"," ","A","n","d"," ","N","i","c","o","b","a","r"," ","I","s","l","a","n","d","s">>>>,
    <<<<"d","a","d","r","a","a","n","d","n","a","g","a","r","h","a","v","e","l","i">>,
      <<"D","a","d","r","a"," ","A","n","d"," ","N","a","g","a","r"," ","H","a","v","e","l","i"," ","A","n","d"," ","D","a","m","a","n"," ","A","n","d"," ","D","i","u">>>>,
    <<<<"d","a","m","a","n","a","n","d","d","i","u">>,
      <<"D","a","d","r","a"," ","A","n","d"," ","N","a","g","a","r"," ","H","a","v","e","l","i"," ","A","n","d"," ","D","a","m","a","n"," ","A","n","d"," ","D","i","u">>>>,
    <<<<"d","a","d","r","a","a","n","d","n","a","g","a","r","h","a","v","e","l","i","a","n","d","d","a","m","a","n","a","n","d","d","i","u">>,
      <<"D","a","d","r","a"," ","A","n","d"," ","N","a","g","a","r"," ","H","a","v","e","l","i"," ","A","n","d"," ","D","a","m","a","n"," ","A","n","d"," ","D","i","u">>>>,
    <<<<"p","o","n","d","i","c","h","e","r","r","y">>,
      <<"P","u","d","u","c","h","e","r","r","y">>>> }

UT_DISTRICT_MAP ==
  { <<<<"e","a","s","t","d","e","l","h","i">>,
      <<"D","e","l","h","i">>>>,
    <<<<"w","e","s","t","d","e","l","h","i">>,
      <<"D","e","l","h","i">>>>,
    <<<<"n","o","r","t","h","d","e","l","h","i">>,
      <<"D","e","l","h","i">>>>,
    <<<<"s","o","u","t","h","d","e","l","h","i">>,
      <<"D","e","l","h","i">>>>,
    <<<<"s","o","u","t","h","w","e","s","t","d","e","l","h","i">>,
      <<"D","e","l","h","i">>>>,
    <<<<"s","o","u","t","h","_","e","a","s","t","_","d","e","l","h","i">>,
      <<"D","e","l","h","i">>>>,
    <<<<"n","o","r","t","h","e","a","s","t","d","e","l","h","i">>,
      <<"D","e","l","h","i">>>>,
    <<<<"n","o","r","t","h","w","e","s","t","d","e","l","h","i">>,
      <<"D","e","l","h","i">>>>,
    <<<<"c","e","n","t","r","a","l","d","e","l","h","i">>,
      <<"D","e","l","h","i">>>>,
    <<<<"n","e","w","d","e","l","h","i">>,
      <<"D","e","l","h","i">>>>,
    <<<<"s","r","i","n","a","g","a","r">>,
      <<"J","a","m","m","u"," ","A","n","d"," ","K","a","s","h","m","i","r">>>>,
    <<<<"j","a","m","m","u">>,
      <<"J","a","m","m","u"," ","A","n","d"," ","K","a","s","h","m","i","r">>>>,
    <<<<"a","n","a","n","t","n","a","g">>,
      <<"J","a","m","m","u"," ","A","n","d"," ","K","a","s","h","m","i","r">>>>,
    <<<<"b","a","r","a","m","u","l","l","a">>,
      <<"J","a","m","m","u"," ","A","n","d"," ","K","a","s","h","m","i","r">>>>,
    <<<<"k","u","p","w","a","r","a">>,
      <<"J","a","m","m","u"," ","A","n","d"," ","K","a","s","h","m","i","r">>>>,
    <<<<"p","u","l","w","a","m","a">>,
      <<"J","a","m","m","u"," ","A","n","d"," ","K","a","s","h","m","i","r">>>>,
    <<<<"b","u","d","g","a","m">>,
      <<"J","a","m","m","u"," ","A","n","d"," ","K","a","s","h","m","i","r">>>>,
    <<<<"g","a","n","d","e","r","b","a","l">>,
      <<"J","a","m","m","u"," ","A","n","d"," ","K","a","s","h","m","i","r">>>>,
    <<<<"k","u","l","g","a","m">>,
      <<"J","a","m","m","u"," ","A","n","d"," ","K","a","s","h","m","i","r">>>>,
    <<<<"s","h","o","p","i","a","n">>,
      <<"J","a","m","m","u"," ","A","n","d"," ","K","a","s","h","m","i","r">>>>,
    <<<<"b","a","n","d","i","p","o","r","a">>,
      <<"J","a","m","m","u"," ","A","n","d"," ","K","a","s","h","m","i","r">>>>,
    <<<<"p","u","n","c","h">>,
      <<"J","a","m","m","u"," ","A","n","d"," ","K","a","s","h","m","i","r">>>>,
    <<<<"p","o","o","n","c","h">>,
      <<"J","a","m","m","u"," ","A","n","d"," ","K","a","s","h","m","i","r">>>>,
    <<<<"r","a","j","o","u","r","i">>,
      <<"J","a","m","m","u"," ","A","n","d"," ","K","a","s","h","m","i","r">>>>,
    <<<<"u","d","h","a","m","p","u","r">>,
      <<"J","a","m","m","u"," ","A","n","d"," ","K","a","s","h","m","i","r">>>>,
    <<<<"r","e","a","s","i">>,
      <<"J","a","m","m","u"," ","A","n","d"," ","K","a","s","h","m","i","r">>>>,
    <<<<"r","a","m","b","a","n">>,
      <<"J","a","m","m","u"," ","A","n","d"," ","K","a","s","h","m","i","r">>>>,
    <<<<"k","a","t","h","u","a">>,
      <<"J","a","m","m","u"," ","A","n","d"," ","K","a","s","h","m","i","r">>>>,
    <<<<"s","a","m","b","a">>,
      <<"J","a","m","m","u"," ","A","n","d"," ","K","a","s","h","m","i","r">>>>,
    <<<<"d","o","d","a">>,
      <<"J","a","m","m","u"," ","A","n","d"," ","K","a","s","h","m","i","r">>>>,
    <<<<"k","i","s","h","t","w","a","r">>,
      <<"J","a","m","m","u"," ","A","n","d"," ","K","a","s","h","m","i","r">>>>,
    <<<<"l","e","h">>,
      <<"L","a","d","a","k","h">>>>,
    <<<<"k","a","r","g","i","l">>,
      <<"L","a","d","a","k","h">>>>,
    <<<<"p","u","d","u","c","h","e","r","r","y">>,
      <<"P","u","d","u","c","h","e","r","r","y">>>>,
    <<<<"p","o","n","d","i","c","h","e","r","r","y">>,
      <<"P","u","d","u","c","h","e","r","r","y">>>>,
    <<<<"k","a","r","a","i","k","a","l">>,
      <<"P","u","d","u","c","h","e","r","r","y">>>>,
    <<<<"m","a","h","e">>,
      <<"P","u","d","u","c","h","e","r","r","y">>>>,
    <<<<"y","a","n","a","m">>,
      <<"P","u","d","u","c","h","e","r","r","y">>>>,
    <<<<"c","h","a","n","d","i","g","a","r","h">>,
      <<"C","h","a","n","d","i","g","a","r","h">>>>,
    <<<<"s","o","u","t","h","a","n","d","a","m","a","n">>,
      <<"A","n","d","a","m","a","n"," ","A","n","d"," ","N","i","c","o","b","a","r"," ","I","s","l","a","n","d","s">>>>,
    <<<<"n","o","r","t","h","a","n","d","m","i","d","d","l","e","a","n","d","a","m","a","n">>,
      <<"A","n","d","a","m","a","n"," ","A","n","d"," ","N","i","c","o","b","a","r"," ","I","s","l","a","n","d","s">>>>,
    <<<<"n","i","c","o","b","a","r","s">>,
      <<"A","n","d","a","m","a","n"," ","A","n","d"," ","N","i","c","o","b","a","r"," ","I","s","l","a","n","d","s">>>>,
    <<<<"l","a","k","s","h","a","d","w","e","e","p">>,
      <<"L","a","k","s","h","a","d","w","e","e","p">>>>,
    <<<<"d","a","d","r","a","a","n","d","n","a","g","a","r","h","a","v","e","l","i">>,
      <<"D","a","d","r","a"," ","A","n","d"," ","N","a","g","a","r"," ","H","a","v","e","l","i"," ","A","n","d"," ","D","a","m","a","n"," ","A","n","d"," ","D","i","u">>>>,
    <<<<"d","a","m","a","n">>,
      <<"D","a","d","r","a"," ","A","n","d"," ","N","a","g","a","r"," ","H","a","v","e","l","i"," ","A","n","d"," ","D","a","m","a","n"," ","A","n","d"," ","D","i","u">>>>,
    <<<<"d","i","u">>,
      <<"D","a","d","r","a"," ","A","n","d"," ","N","a","g","a","r"," ","H","a","v","e","l","i"," ","A","n","d"," ","D","a","m","a","n"," ","A","n","d"," ","D","i","u">>>> }

STATES_28_SET == Range(STATES_28)
UTS_8_SET == Range(UTS_8)

\* RE_MOSTLY_DIGITS = ^\d{3,}$ : the least number of digits of "numeric junk"
MostlyDigitsMin == 3
RE_MOSTLY_DIGITS(s) == Len(s) >= MostlyDigitsMin /\ AllDigits(s)

\* _key: lower-case, strip, & -> and, drop whitespace/_/-, drop all but a-z0-9
_key(s0) ==
  LET s1 == strip(lower(s0))
      s2 == replace(s1, "&", <<"a","n","d">>)
      s3 == SelectSeq(s2, LAMBDA c : ~(IsSpace(c) \/ c = "_" \/ c = "-"))
  IN  SelectSeq(s3, LAMBDA c : IsLower(c) \/ IsDigit(c))

\* the dict comprehensions {__key(x): x for x in ...}, as sets of <<key, name>>
STATE_KEY_TO_NAME == { <<_key(x), x>> : x \in STATES_28_SET }
UT_KEY_TO_NAME == { <<_key(x), x>> : x \in UTS_8_SET }

\* "k in d" and "d[k]" of a dict given as a set of <<key, value>>
Keys(d) == { p[1] : p \in d }
Get(d, k) == (CHOOSE p \in d : p[1] = k)[2]

----------------------------------------------------------------------------
(* difflib.get_close_matches(word, possibilities, n=1, cutoff)             *)

\* the cutoff 0.92 of both calls, as a fraction
CutoffNum == 92
CutoffDen == 100

\* length of the common run of a from i and b from j, within a[..ahi], b[..bhi]
RECURSIVE RunLen(_, _, _, _, _, _)
RunLen(a, b, i, j, ahi, bhi) ==
  IF i <= ahi /\ j <= bhi /\ a[i] = b[j]
  THEN 1 + RunLen(a, b, i + 1, j + 1, ahi, bhi)
  ELSE 0

\* SequenceMatcher.find_longest_match: the longest block, of those the one
\* starting earliest in a, of those the one starting earliest in b
find_longest_match(a, b, alo, ahi, blo, bhi) ==
  LET starts == (alo..ahi) \X (blo..bhi)
      best == CHOOSE k \in 0..(ahi - alo + 1) :
                /\ \A p \in starts : RunLen(a, b, p[1], p[2], ahi, bhi) <= k
                /\ (k = 0 \/ \E p \in starts : RunLen(a, b, p[1], p[2], ahi, bhi) = k)
      hits == { p \in starts : RunLen(a, b, p[1], p[2], ahi, bhi) = best }
      i == CHOOSE x \in { p[1] : p \in hits } : \A p \in hits : x <= p[1]
      j == CHOOSE y \in { p[2] : p \in { q \in hits : q[1] = i } } :
             \A p \in { q \in hits : q[1] = i } : y <= p[2]
  IN  IF best = 0 THEN <<alo, blo, 0>> ELSE <<i, j, best>>

\* SequenceMatcher.get_matching_blocks, summed: the number of matched characters
RECURSIVE Matches(_, _, _, _, _, _)
Matches(a, b, alo, ahi, blo, bhi) ==
  IF alo > ahi \/ blo > bhi THEN 0
  ELSE LET m == find_longest_match(a, b, alo, ahi, blo, bhi)
       IN  IF m[3] = 0 THEN 0
           ELSE m[3] + Matches(a, b, alo, m[1] - 1, blo, m[2] - 1)
                     + Matches(a, b, m[1] + m[3], ahi, m[2] + m[3], bhi)

\* ratio() >= cutoff, ratio = 2.0 * matches / (len(a) + len(b)), 1.0 if both empty
RatioAtLeast(matches, length, num, den) ==
  IF length = 0 THEN num <= den ELSE 2 * matches * den >= num * length

Count(s, c) == Cardinality({ i \in DOMAIN s : s[i] = c })

\* quick_ratio(): the multiset intersection of the characters
QuickMatches(a, b) ==
  LET cs == Range(a) \cap Range(b)
      RECURSIVE Sum(_)
      Sum(S) == IF S = {} THEN 0
                ELSE LET c == CHOOSE x \in S : TRUE
                     IN  Min(Count(a, c), Count(b, c)) + Sum(S \ {c})
  IN  Sum(cs)

ratio_matches(a, b) == Matches(a, b, 1, Len(a), 1, Len(b))

\* the three tests of get_close_matches, cheapest first
IsClose(x, word, num, den) ==
  /\ RatioAtLeast(Min(Len(x), Len(word)), Len(x) + Len(word), num, den)
  /\ RatioAtLeast(QuickMatches(x, word), Len(x) + Len(word), num, den)
  /\ RatioAtLeast(ratio_matches(x, word), Len(x) + Len(word), num, den)

\* Python's order of two texts (by code point; a proper prefix is smaller)
Code(c) ==
  IF IsDigit(c) THEN 47 + IndexOf(Digits, c)
  ELSE IF IsUpper(c) THEN 64 + IndexOf(Uppers, c)
  ELSE IF IsLower(c) THEN 96 + IndexOf(Lowers, c)
  ELSE IF c = " " THEN 32
  ELSE IF c = "-" THEN 45
  ELSE IF c = "." THEN 46
  ELSE IF c = "/" THEN 47
  ELSE IF c = ":" THEN 58
  ELSE IF c = "&" THEN 38
  ELSE IF c = "_" THEN 95
  ELSE 0

RECURSIVE StrLess(_, _)
StrLess(s, t) ==
  IF t = <<>> THEN FALSE
  ELSE IF s = <<>> THEN TRUE
  ELSE IF Head(s) = Head(t) THEN StrLess(Tail(s), Tail(t))
  ELSE Code(Head(s)) < Code(Head(t))

\* heapq.nlargest(1, [(ratio, x)]): the best ratio, ties to the larger text;
\* ratios r1 = 2*m1/l1, r2 = 2*m2/l2 compared by cross-multiplication
ScoreLess(x, y, word) ==
  LET mx == ratio_matches(x, word)   lx == Len(x) + Len(word)
      my == ratio_matches(y, word)   ly == Len(y) + Len(word)
  IN  \/ mx * ly < my * lx
      \/ (mx * ly = my * lx /\ StrLess(x, y))

CloseMatchesWith(word, possibilities, num, den) ==
  LET close == { x \in possibilities : IsClose(x, word, num, den) }
  IN  IF close = {} THEN <<>>
      ELSE << CHOOSE x \in close : \A y \in close \ {x} : ScoreLess(y, x, word) >>

get_close_matches_loose(word, possibilities) ==
  CloseMatchesWith(word, possibilities, 85, 100)

get_close_matches(word, possibilities) ==
  CloseMatchesWith(word, possibilities, CutoffNum, CutoffDen)

----------------------------------------------------------------------------
(* canonicalize_region                                                     *)

UNKNOWN == <<"UNKNOWN", <<>>>>

\* the keys the function computes from its two arguments
StateKey(state_raw) ==
  LET s == strip(state_raw)
  IN  _key(IF RE_MOSTLY_DIGITS(s) THEN <<>> ELSE s)
DistrictKey(district_raw) == _key(strip(district_raw))

\* an alias lookup that names a state or a UT: ("STATE"|"UT", name), else none
AliasHit(k) ==
  k \in Keys(REGION_ALIASES)
  /\ Get(REGION_ALIASES, k) \in STATES_28_SET \cup UTS_8_SET
AliasResult(k) ==
  LET name == Get(REGION_ALIASES, k)
  IN  IF name \in STATES_28_SET THEN <<"STATE", name>> ELSE <<"UT", name>>

ExactHit(k) == k \in Keys(STATE_KEY_TO_NAME) \cup Keys(UT_KEY_TO_NAME)
ExactResult(k) ==
  IF k \in Keys(STATE_KEY_TO_NAME) THEN <<"STATE", Get(STATE_KEY_TO_NAME, k)>>
  ELSE <<"UT", Get(UT_KEY_TO_NAME, k)>>

Delhi == <<"D","e","l","h","i">>
delhi == <<"d","e","l","h","i">>

\* lines 290-300: the fuzzy match of the state key, states before territories
FuzzyResult(sk) ==
  Let(get_close_matches(sk, Keys(STATE_KEY_TO_NAME)),
      LAMBDA close_state :
        IF close_state # <<>> THEN <<"STATE", Get(STATE_KEY_TO_NAME, close_state[1])>>
        ELSE Let(get_close_matches(sk, Keys(UT_KEY_TO_NAME)),
                 LAMBDA close_ut :
                   IF close_ut # <<>> THEN <<"UT", Get(UT_KEY_TO_NAME, close_ut[1])>>
                   ELSE UNKNOWN))

canonicalize_region_swapped(state_raw, district_raw) ==
  Let([sk |-> StateKey(state_raw), dk |-> DistrictKey(district_raw)],
      LAMBDA k :
        IF AliasHit(k.sk) THEN AliasResult(k.sk)
        ELSE IF k.dk \in Keys(UT_DISTRICT_MAP) THEN <<"UT", Get(UT_DISTRICT_MAP, k.dk)>>
        ELSE IF ExactHit(k.sk) THEN ExactResult(k.sk)
        ELSE IF Contains(k.dk, delhi) THEN <<"UT", Delhi>>
        ELSE IF AliasHit(k.dk) THEN AliasResult(k.dk)
        ELSE IF ExactHit(k.dk) THEN ExactResult(k.dk)
        ELSE FuzzyResult(k.sk))

canonicalize_region(state_raw, district_raw) ==
  Let([sk |-> StateKey(state_raw), dk |-> DistrictKey(district_raw)],
      LAMBDA k :
        IF AliasHit(k.sk) THEN AliasResult(k.sk)
        ELSE IF ExactHit(k.sk) THEN ExactResult(k.sk)
        ELSE IF k.dk \in Keys(UT_DISTRICT_MAP) THEN <<"UT", Get(UT_DISTRICT_MAP, k.dk)>>
        ELSE IF Contains(k.dk, delhi) THEN <<"UT", Delhi>>
        ELSE IF AliasHit(k.dk) THEN AliasResult(k.dk)
        ELSE IF ExactHit(k.dk) THEN ExactResult(k.dk)
        ELSE FuzzyResult(k.sk))

----------------------------------------------------------------------------
(* parse_dates_strong                                                      *)

\* pd.NA / NaN in a column of texts, and NaT in a column of timestamps; a
\* timestamp is <<year, month, day, hour>>
NA == <<"<NA>">>
NaT == <<>>

RECURSIVE Num(_)
Num(ds) == IF ds = <<>> THEN 0
           ELSE 10 * Num(SubSeq(ds, 1, Len(ds) - 1)) + IndexOf(Digits, ds[Len(ds)]) - 1

\* t.split(c)
RECURSIVE SplitOn(_, _)
SplitOn(t, c) ==
  IF \A i \in DOMAIN t : t[i] # c THEN <<t>>
  ELSE LET k == CHOOSE i \in DOMAIN t : t[i] = c /\ \A j \in 1..(i - 1) : t[j] # c
       IN  <<SubSeq(t, 1, k - 1)>> \o SplitOn(SubSeq(t, k + 1, Len(t)), c)

IsNum(f, lo, hi) == Len(f) >= lo /\ Len(f) <= hi /\ AllDigits(f)

DaysIn(y, m) ==
  IF m \in {4, 6, 9, 11} THEN 30
  ELSE IF m = 2 THEN (IF y % 4 = 0 /\ (y % 100 # 0 \/ y % 400 = 0) THEN 29 ELSE 28)
  ELSE 31

\* a Timestamp, or NaT (errors="coerce") when the fields are no date or the
\* year is outside what datetime64[ns] holds
MakeTs(y, m, d, hh) ==
  IF y >= 1678 /\ y <= 2261 /\ m >= 1 /\ m <= 12 /\ d >= 1 /\ d <= DaysIn(y, m)
     /\ hh >= 0 /\ hh <= 23
  THEN <<y, m, d, hh>> ELSE NaT

\* the three fields of a-b-c, each a run of digits
DashFields(t) == LET f == SplitOn(t, "-") IN IF Len(f) = 3 THEN f ELSE <<>>
IsYearFirst(f) == f # <<>> /\ IsNum(f[1], 4, 4) /\ IsNum(f[2], 1, 2) /\ IsNum(f[3], 1, 2)
IsYearLast(f) == f # <<>> /\ IsNum(f[1], 1, 2) /\ IsNum(f[2], 1, 2) /\ IsNum(f[3], 4, 4)
IsCompact(t) == Len(t) = 8 /\ AllDigits(t)
\* YYYY-MM-DDTHH:MM
IsIsoTime(f) ==
  /\ f # <<>> /\ IsNum(f[1], 4, 4) /\ IsNum(f[2], 2, 2) /\ Len(f[3]) = 8
  /\ IsNum(SubSeq(f[3], 1, 2), 2, 2) /\ f[3][3] = "T"
  /\ IsNum(SubSeq(f[3], 4, 5), 2, 2) /\ f[3][6] = ":" /\ IsNum(SubSeq(f[3], 7, 8), 2, 2)

\* pd.to_datetime(..., format=fmt, errors="coerce") of one text
strptime(t, fmt) ==
  LET f == DashFields(t)
      c(i, j) == Num(SubSeq(t, i, j))
  IN  CASE fmt = "%Y-%m-%d" ->
             IF IsYearFirst(f) THEN MakeTs(Num(f[1]), Num(f[2]), Num(f[3]), 0) ELSE NaT
        [] fmt = "%d-%m-%Y" ->
             IF IsYearLast(f) THEN MakeTs(Num(f[3]), Num(f[2]), Num(f[1]), 0) ELSE NaT
        [] fmt = "%m-%d-%Y" ->
             IF IsYearLast(f) THEN MakeTs(Num(f[3]), Num(f[1]), Num(f[2]), 0) ELSE NaT
        [] fmt = "%Y%m%d" -> IF IsCompact(t) THEN MakeTs(c(1, 4), c(5, 6), c(7, 8), 0) ELSE NaT
        [] fmt = "%d%m%Y" -> IF IsCompact(t) THEN MakeTs(c(5, 8), c(3, 4), c(1, 2), 0) ELSE NaT
        [] fmt = "%m%d%Y" -> IF IsCompact(t) THEN MakeTs(c(5, 8), c(1, 2), c(3, 4), 0) ELSE NaT
        [] fmt = "%Y-%m-%dT%H:%M" ->
             IF IsIsoTime(f)
             THEN MakeTs(Num(f[1]), Num(f[2]), Num(SubSeq(f[3], 1, 2)), Num(SubSeq(f[3], 4, 5)))
             ELSE NaT
        [] OTHER -> NaT

\* the format-free parse of one text (the ISO 8601 path, then dateutil's
\* resolution of three numbers under dayfirst)
ParseOne(t, dayfirst) ==
  LET f == DashFields(t)
  IN  IF IsCompact(t) THEN strptime(t, "%Y%m%d")
      ELSE IF IsIsoTime(f) THEN strptime(t, "%Y-%m-%dT%H:%M")
      ELSE IF IsYearFirst(f) THEN
             IF strptime(t, "%Y-%m-%d") # NaT THEN strptime(t, "%Y-%m-%d")
             ELSE IF dayfirst /\ Num(f[3]) <= 12
                  THEN MakeTs(Num(f[1]), Num(f[3]), Num(f[2]), 0) ELSE NaT
      ELSE IF IsYearLast(f) THEN
             IF Num(f[1]) > 12 \/ (dayfirst /\ Num(f[2]) <= 12)
             THEN strptime(t, "%d-%m-%Y") ELSE strptime(t, "%m-%d-%Y")
      ELSE NaT

\* the format pandas guesses from one text, "" when it guesses none
GuessFormat(t, dayfirst) ==
  LET f == DashFields(t)
  IN  IF ParseOne(t, dayfirst) = NaT THEN ""
      ELSE IF IsCompact(t) THEN "%Y%m%d"
      ELSE IF IsIsoTime(f) THEN "%Y-%m-%dT%H:%M"
      ELSE IF IsYearFirst(f) THEN (IF strptime(t, "%Y-%m-%d") # NaT THEN "%Y-%m-%d" ELSE "")
      ELSE IF Num(f[1]) > 12 \/ (dayfirst /\ Num(f[2]) <= 12) THEN "%d-%m-%Y"
      ELSE "%m-%d-%Y"

\* pd.to_datetime(col, errors="coerce", dayfirst=...) of the values at the
\* positions idx. infer: the build of pandas guesses one format from the first
\* non-null value and parses every value with it (pandas >= 2); otherwise every
\* value is parsed on its own (pandas < 2).
to_datetime(col, idx, dayfirst, infer) ==
  LET nonnull == { i \in idx : col[i] # NA }
      first == CHOOSE i \in nonnull : \A j \in nonnull : i <= j
      fmt == IF infer /\ nonnull # {} THEN GuessFormat(col[first], dayfirst) ELSE ""
  IN  [i \in idx |-> IF col[i] = NA THEN NaT
                     ELSE IF fmt # "" THEN strptime(col[i], fmt)
                     ELSE ParseOne(col[i], dayfirst)]

\* the tokens s.replace({...: pd.NA}) maps to missing
Placeholders ==
  { <<>>, <<"n","a">>, <<"N","A">>, <<"n","a","n">>, <<"n","u","l","l">>,
    <<"N","o","n","e">>, <<"-">>, <<"-","-">> }

\* lines 208-224: astype(str), strip, placeholders, separators, whitespace
NormalizeDate(v) ==
  LET s1 == strip(IF v = NA THEN <<"n","a","n">> ELSE v)
  IN  IF s1 \in Placeholders THEN NA
      ELSE SelectSeq(replace(replace(s1, ".", <<"-">>), "/", <<"-">>),
                     LAMBDA c : ~IsSpace(c))
NormalizeDates(series) == [i \in DOMAIN series |-> NormalizeDate(series[i])]

\* mask = d.isna() & s.notna()
Mask(s, d) == { i \in DOMAIN s : d[i] = NaT /\ s[i] # NA }

\* line 226
StageDayFirst(s, infer) == to_datetime(s, DOMAIN s, TRUE, infer)

\* lines 228-231
StageMonthFirst(s, d, infer) ==
  LET mask == Mask(s, d)
      d2 == to_datetime(s, mask, FALSE, infer)
  IN  IF mask # {} THEN [i \in DOMAIN d |-> IF i \in mask THEN d2[i] ELSE d[i]] ELSE d

formats == <<"%Y-%m-%d", "%d-%m-%Y", "%m-%d-%Y", "%Y%m%d", "%d%m%Y", "%m%d%Y">>

FillFixedOverwriting(s, mask, fixed, fmt) ==
  [i \in DOMAIN s |->
     IF i \in mask /\ strptime(s[i], fmt) # NaT THEN strptime(s[i], fmt) ELSE fixed[i]]

\* lines 239-241, one turn of the loop: fixed, defined on the masked positions
\* (NaT elsewhere), takes what fmt parses where nothing is filled yet
FillFixed(s, mask, fixed, fmt) ==
  [i \in DOMAIN s |->
     IF i \in mask /\ fixed[i] = NaT /\ strptime(s[i], fmt) # NaT
     THEN strptime(s[i], fmt) ELSE fixed[i]]

RECURSIVE FillAll(_, _, _, _)
FillAll(s, mask, fixed, k) ==
  IF k > Len(formats) THEN fixed
  ELSE FillAll(s, mask, FillFixed(s, mask, fixed, formats[k]), k + 1)

\* line 242: d.loc[mask] = fixed
AssignFixed(d, mask, fixed) == [i \in DOMAIN d |-> IF i \in mask THEN fixed[i] ELSE d[i]]

AllNaT(s) == [i \in DOMAIN s |-> NaT]

\* lines 233-242
StageFormats(s, d) ==
  LET mask == Mask(s, d)
  IN  IF mask # {} THEN AssignFixed(d, mask, FillAll(s, mask, AllNaT(s), 1)) ELSE d

parse_dates_strong(series, infer) ==
  LET s == NormalizeDates(series)
  IN  StageFormats(s, StageMonthFirst(s, StageDayFirst(s, infer), infer))

----------------------------------------------------------------------------
(* norm_title, norm_pincode, sort_df, merge_write_dataset                  *)

IsAlpha(c) == IsLower(c) \/ IsUpper(c)

\* RE_SPACE.sub(" ", s): every run of whitespace becomes one space
RECURSIVE CollapseSpaces(_)
CollapseSpaces(s) ==
  IF s = <<>> THEN <<>>
  ELSE IF IsSpace(Head(s))
       THEN <<" ">> \o CollapseSpaces(lstrip(s))
       ELSE <<Head(s)>> \o CollapseSpaces(Tail(s))

\* str.title(): a letter after a non-letter is upper-cased, any other lower-cased
title(s) ==
  [i \in DOMAIN s |->
     IF i = 1 \/ ~IsAlpha(s[i - 1]) THEN ToUpper(s[i]) ELSE ToLower(s[i])]

\* norm_title and norm_pincode of a value that is missing (NA) or, through
\* str(x), a text
norm_title(x) == IF x = NA THEN <<>> ELSE title(CollapseSpaces(strip(x)))
norm_pincode(x) == IF x = NA THEN <<>> ELSE SelectSeq(strip(x), IsDigit)

RECURSIVE NatToText(_)
NatToText(n) ==
  IF n < 10 THEN <<Digits[n + 1]>> ELSE NatToText(n \div 10) \o <<Digits[(n % 10) + 1]>>

Pad2(n) == IF n < 10 THEN <<"0">> \o NatToText(n) ELSE NatToText(n)

\* Timestamp.strftime("%Y-%m-%d"): the time of day is not written
strftime(ts) == NatToText(ts[1]) \o <<"-">> \o Pad2(ts[2]) \o <<"-">> \o Pad2(ts[3])

\* Rows of a frame in memory are records [state, district, pincode: text,
\* date: timestamp or NaT, metric: <<n>> or NaN]; rows of a table file hold the
\* text of each cell.
NaN == <<>>

\* to_csv(out_path, index=False), cell by cell (a missing number is an empty cell)
ToCsvRow(r) ==
  [state |-> r.state, district |-> r.district, pincode |-> r.pincode,
   date |-> strftime(r.date),
   metric |-> IF r.metric = NaN THEN <<>> ELSE NatToText(r.metric[1])]
to_csv(df) == [i \in DOMAIN df |-> ToCsvRow(df[i])]

\* pd.read_csv(out_path) followed by str(x), for one column of cells: an
\* empty cell is NaN; a column whose other cells are all digits is int64 when
\* no cell is empty (str gives the number without leading zeros) and float64
\* when one is (str gives the number followed by ".0"); any other column
\* holds its texts
ReadColumnStr(cells) ==
  LET filled == { i \in DOMAIN cells : cells[i] # <<>> }
      numeric == \A i \in filled : AllDigits(cells[i])
  IN  [i \in DOMAIN cells |->
         IF cells[i] = <<>> THEN NA
         ELSE IF ~numeric THEN cells[i]
         ELSE IF filled = DOMAIN cells THEN NatToText(Num(cells[i]))
         ELSE NatToText(Num(cells[i])) \o <<".", "0">>]

Column(rows, f) == [i \in DOMAIN rows |-> rows[i][f]]

\* lines 362-371: the table read back and normalized again
Reload(rows, infer) ==
  Let([date |-> parse_dates_strong(ReadColumnStr(Column(rows, "date")), infer),
       district |-> ReadColumnStr(Column(rows, "district")),
       pincode |-> ReadColumnStr(Column(rows, "pincode")),
       state |-> ReadColumnStr(Column(rows, "state"))],
      LAMBDA old :
        [i \in DOMAIN rows |->
           [state |-> norm_title(old.state[i]), district |-> norm_title(old.district[i]),
            pincode |-> norm_pincode(old.pincode[i]), date |-> old.date[i],
            metric |-> IF rows[i].metric = <<>> THEN NaN ELSE <<Num(rows[i].metric)>>]])

\* the table file at out_path: absent, of zero bytes, or a header and rows
Absent == [kind |-> "absent", rows |-> <<>>]
ZeroBytes == [kind |-> "empty", rows |-> <<>>]
Csv(rows) == [kind |-> "csv", rows |-> rows]

\* lines 361-375
Combined(file, sdf, infer) ==
  IF file.kind = "csv" THEN Reload(file.rows, infer) \o sdf ELSE sdf

\* DataFrame.drop_duplicates(): the first of equal rows is kept
RECURSIVE drop_duplicates(_)
drop_duplicates(df) ==
  IF df = <<>> THEN <<>>
  ELSE Let(drop_duplicates(SubSeq(df, 1, Len(df) - 1)),
           LAMBDA init :
             IF \E i \in DOMAIN init : init[i] = df[Len(df)] THEN init
             ELSE Append(init, df[Len(df)]))

\* the order of two timestamps, NaT last
TsLess(x, y) ==
  IF x = NaT THEN FALSE
  ELSE IF y = NaT THEN TRUE
  ELSE \E k \in 1..4 : x[k] < y[k] /\ \A j \in 1..(k - 1) : x[j] = y[j]

\* the order of sort_values(["district", "pincode", DATE_COL])
KeyLess(a, b) ==
  \/ StrLess(a.district, b.district)
  \/ a.district = b.district /\ StrLess(a.pincode, b.pincode)
  \/ a.district = b.district /\ a.pincode = b.pincode /\ TsLess(a.date, b.date)

\* r put behind every row of a sorted frame that is not greater than it
InsertBehindEquals(sorted, r) ==
  LET k == Cardinality({ i \in DOMAIN sorted : ~KeyLess(r, sorted[i]) })
  IN  SubSeq(sorted, 1, k) \o <<r>> \o SubSeq(sorted, k + 1, Len(sorted))

InsertBeforeEquals(sorted, r) ==
  LET k == Cardinality({ i \in DOMAIN sorted : KeyLess(sorted[i], r) })
  IN  SubSeq(sorted, 1, k) \o <<r>> \o SubSeq(sorted, k + 1, Len(sorted))

RECURSIVE SortWith(_, _)
SortWith(df, before) ==
  IF df = <<>> THEN <<>>
  ELSE Let(SortWith(SubSeq(df, 1, Len(df) - 1), before),
           LAMBDA init :
             IF before THEN InsertBeforeEquals(init, df[Len(df)])
             ELSE InsertBehindEquals(init, df[Len(df)]))

sort_df_unstable(df) == SortWith(df, TRUE)

\* sort_df: a stable (mergesort) sort
sort_df(df) == SortWith(df, FALSE)

\* lines 377-379: deduplicated, sorted, rows without a date dropped
Kept(combined) ==
  Let(drop_duplicates(combined),
      LAMBDA unique : Let(sort_df(unique),
                          LAMBDA sorted : SelectSeq(sorted, LAMBDA r : r.date # NaT)))

\* merge_write_dataset, when to_csv completes: its combined frame (line
\* 373/375), the frame it writes (line 379) and the table file afterwards
merge_write_dataset(file, sdf, infer) ==
  Let(Combined(file, sdf, infer),
      LAMBDA combined :
        Let(Kept(combined),
            LAMBDA kept : [combined |-> combined, kept |-> kept, file |-> Csv(to_csv(kept))]))

\* what a to_csv that raises part-way can leave at out_path: the previous
\* file (it failed before opening), a file of zero bytes (opened, nothing
\* written) or the header and a proper prefix of the rows
PartialWrites(file, new) ==
  {file, ZeroBytes} \cup { Csv(SubSeq(new.rows, 1, k)) : k \in 0..(Len(new.rows) - 1) }

----------------------------------------------------------------------------
(* clean_col, infer_dataset, clean_dataframe, get_output_folder and the    *)
(* body of the loop of main                                                *)

\* An input file is [name, header, rows]: the texts of the header's cells and,
\* row by row, the texts of the cells under them.

RECURSIVE CollapseUnderscores(_)
CollapseUnderscores(s) ==
  IF s = <<>> THEN <<>>
  ELSE IF Head(s) = "_" /\ Len(s) > 1 /\ s[2] = "_" THEN CollapseUnderscores(Tail(s))
  ELSE <<Head(s)>> \o CollapseUnderscores(Tail(s))

clean_col(c) == CollapseUnderscores(replace(lower(strip(c)), " ", <<"_">>))

DATE_COL == <<"d","a","t","e">>
StateCol == <<"s","t","a","t","e">>
DistrictCol == <<"d","i","s","t","r","i","c","t">>
PincodeCol == <<"p","i","n","c","o","d","e">>
\* the one column of the sample files that is not a key column
CountCol == <<"c","o","u","n","t">>

infer_dataset(filename) ==
  LET f == lower(filename)
  IN  IF Contains(f, <<"d","e","m","o">>) \/ Contains(f, <<"d","e","m","o","g","r","a","p","h","i","c">>)
        THEN "demographic"
      ELSE IF Contains(f, <<"b","i","o">>) \/ Contains(f, <<"b","i","o","m","e","t","r","i","c">>)
        THEN "biometric"
      ELSE IF Contains(f, <<"e","n","r","o","l">>) \/ Contains(f, <<"e","n","r","o","l","l">>)
        THEN "enrolment"
      ELSE "dataset"

\* df.columns after line 307, and the required columns that are not among them
Columns(file) == [i \in DOMAIN file.header |-> clean_col(file.header[i])]
required == {StateCol, DistrictCol, PincodeCol, DATE_COL}
missing(file) == required \ Range(Columns(file))

\* pd.read_csv(path, dtype=str): the cell of a row under a column, an empty
\* cell being missing
Cell(file, row, col) ==
  LET cell == row[IndexOf(Columns(file), col)]
  IN  IF cell = <<>> THEN NA ELSE cell

\* pd.to_numeric(x, errors="coerce") of a cell that holds digits or no number
to_numeric(x) == IF x # NA /\ AllDigits(x) THEN <<Num(x)>> ELSE NaN

\* clean_dataframe past line 312 (the required columns are there)
clean_dataframe(file, infer) ==
  Let(parse_dates_strong([i \in DOMAIN file.rows |-> Cell(file, file.rows[i], DATE_COL)], infer),
      LAMBDA dates :
        [i \in DOMAIN file.rows |->
           Let([state |-> norm_title(Cell(file, file.rows[i], StateCol)),
                district |-> norm_title(Cell(file, file.rows[i], DistrictCol))],
               LAMBDA normed :
                 Let(canonicalize_region(normed.state, normed.district),
                     LAMBDA region :
                       [state |-> normed.state, district |-> normed.district,
                        pincode |-> norm_pincode(Cell(file, file.rows[i], PincodeCol)),
                        date |-> dates[i],
                        metric |-> to_numeric(Cell(file, file.rows[i], CountCol)),
                        _region_type |-> region[1],
                        _region_name |-> IF region[2] # <<>> THEN region[2] ELSE NA]))])

\* lines 463-475 of main: the frames and the counts of one file
valid_date(df) == SelectSeq(df, LAMBDA r : r.date # NaT)
invalid_date_count(total_read, valid) == total_read - Len(valid)

mapped(valid) == SelectSeq(valid, LAMBDA r : r._region_name # NA)
unmapped_region_count_none(valid, mapped_rows) == 0
unmapped_region_count(valid, mapped_rows) == Len(valid) - Len(mapped_rows)

state_rows_unchecked(mapped_rows) == mapped_rows
state_rows(mapped_rows) ==
  SelectSeq(mapped_rows, LAMBDA r : r._region_type = "STATE" /\ r._region_name \in STATES_28_SET)
ut_rows(mapped_rows) ==
  SelectSeq(mapped_rows, LAMBDA r : r._region_type = "UT" /\ r._region_name \in UTS_8_SET)
mapped_but_not_allowed(mapped_rows, st, ut) == Len(mapped_rows) - (Len(st) + Len(ut))

\* get_output_folder and line 359: the path of a table, by the folder's kind,
\* the region's name (safe_folder_name keeps the canonical names apart) and
\* the dataset
get_output_folder(region_type, region_name) ==
  IF region_type = "STATE" THEN <<"STATE", region_name>>
  ELSE IF region_type = "UT" THEN <<"UT", region_name>>
  ELSE <<"_UNKNOWN", <<>>>>
out_path(region_folder, dataset) == <<region_folder[1], region_folder[2], dataset>>

\* the keys of rows.groupby("_region_name"), in the order groupby yields them
RECURSIVE SortedNames(_)
SortedNames(names) ==
  IF names = {} THEN <<>>
  ELSE LET least == CHOOSE x \in names : \A y \in names \ {x} : StrLess(x, y)
       IN  <<least>> \o SortedNames(names \ {least})

\* sdf.drop(columns=["_region_type", "_region_name"])
DropRegion(r) ==
  [state |-> r.state, district |-> r.district, pincode |-> r.pincode,
   date |-> r.date, metric |-> r.metric]

\* lines 505-512 and 515-522: the calls of merge_write_dataset one of the two
\* loops makes, in order, each with its out_path and its sdf
GroupWrites(region_type, rows, dataset) ==
  LET names == SortedNames({ rows[i]._region_name : i \in DOMAIN rows })
  IN  [g \in DOMAIN names |->
         [path |-> out_path(get_output_folder(region_type, names[g]), dataset),
          sdf |-> [i \in DOMAIN SelectSeq(rows, LAMBDA r : r._region_name = names[g]) |->
                     DropRegion(SelectSeq(rows, LAMBDA r : r._region_name = names[g])[i])]]]

\* the table files under OUTPUT_DIR are a set of <<path, file>>
TableAt(tables, path) == IF path \in Keys(tables) THEN Get(tables, path) ELSE Absent
Put(tables, path, file) == { e \in tables : e[1] # path } \cup { <<path, file>> }

\* the tables after the calls of merge_write_dataset in writes have returned
RECURSIVE WriteAll(_, _, _)
WriteAll(tables, writes, infer) ==
  IF writes = <<>> THEN tables
  ELSE Let(Put(tables, Head(writes).path,
               merge_write_dataset(TableAt(tables, Head(writes).path), Head(writes).sdf, infer).file),
           LAMBDA written : WriteAll(written, Tail(writes), infer))

\* lines 463-472: the frames main splits the cleaned frame into
Frames(df) ==
  Let(valid_date(df),
      LAMBDA valid :
        Let(mapped(valid),
            LAMBDA mapped_rows :
              [valid_date |-> valid, mapped |-> mapped_rows,
               state_rows |-> state_rows(mapped_rows), ut_rows |-> ut_rows(mapped_rows)]))

\* one pass of the loop of main up to line 522, for a file that has the
\* required columns: the counts and the calls of merge_write_dataset
Pass(file, infer) ==
  Let(Frames(clean_dataframe(file, infer)),
      LAMBDA f :
        [total_read |-> Len(file.rows),
         valid_date |-> Len(f.valid_date),
         state_written |-> Len(f.state_rows),
         ut_written |-> Len(f.ut_rows),
         invalid_date_count |-> invalid_date_count(Len(file.rows), f.valid_date),
         unmapped_region_count |-> unmapped_region_count(f.valid_date, f.mapped),
         mapped_but_not_allowed |-> mapped_but_not_allowed(f.mapped, f.state_rows, f.ut_rows),
         writes |-> GroupWrites("STATE", f.state_rows, infer_dataset(file.name))
                    \o GroupWrites("UT", f.ut_rows, infer_dataset(file.name))])

\* global_counts: at line 446, and after lines 525-531
NoCounts ==
  [TOTAL_READ |-> 0, VALID_DATE |-> 0, STATE_WRITTEN |-> 0, UT_WRITTEN |-> 0,
   OMIT_INVALID_DATE |-> 0, OMIT_UNMAPPED_REGION |-> 0, OMIT_MAPPED_NOT_ALLOWED |-> 0]
AddCounts(global_counts, pass) ==
  [TOTAL_READ |-> global_counts.TOTAL_READ + pass.total_read,
   VALID_DATE |-> global_counts.VALID_DATE + pass.valid_date,
   STATE_WRITTEN |-> global_counts.STATE_WRITTEN + pass.state_written,
   UT_WRITTEN |-> global_counts.UT_WRITTEN + pass.ut_written,
   OMIT_INVALID_DATE |-> global_counts.OMIT_INVALID_DATE + pass.invalid_date_count,
   OMIT_UNMAPPED_REGION |-> global_counts.OMIT_UNMAPPED_REGION + pass.unmapped_region_count,
   OMIT_MAPPED_NOT_ALLOWED |-> global_counts.OMIT_MAPPED_NOT_ALLOWED + pass.mapped_but_not_allowed]

\* lines 570-577: the two numbers of the sanity line of the report
total_accounted(global_counts) ==
  global_counts.STATE_WRITTEN + global_counts.UT_WRITTEN + global_counts.OMIT_INVALID_DATE
  + global_counts.OMIT_UNMAPPED_REGION + global_counts.OMIT_MAPPED_NOT_ALLOWED
SanityLine(global_counts) == <<total_accounted(global_counts), global_counts.TOTAL_READ>>
----------------------------------------------------------------------------
(* Each specification below runs one part of the program; the variables of *)
(* the parts it does not run stay idle                                     *)

RegionIdle ==
  rgState = <<>> /\ rgDistrict = <<>> /\ rgResult = <<>> /\ rgPc = "idle"

DatesIdle ==
  /\ dtSeries = <<>> /\ dtInfer = FALSE /\ dtS = <<>> /\ dtD = <<>>
  /\ dtFixed = <<>> /\ dtFmt = 0 /\ dtPc = "idle"

StoreIdle ==
  /\ stFile = <<>> /\ stPrev = <<>> /\ stRows = <<>> /\ stConcat = <<>> /\ stKept = <<>>
  /\ stOutcome = "idle" /\ stRepeat = FALSE /\ stCalls = 0

MainIdle ==
  /\ mnInput = {} /\ mnFiles = <<>> /\ mnInfer = FALSE /\ mnPc = "idle" /\ mnDone = 0
  /\ mnError = "none" /\ mnTables = {} /\ mnCounts = <<>> /\ mnReport = <<>>

----------------------------------------------------------------------------
(* One call of canonicalize_region, on sample texts and on every key one   *)
(* edit away from "gujarat"                                                *)

gujarat == <<"g","u","j","a","r","a","t">>
Gujarat == <<"G","u","j","a","r","a","t">>
KeyAlphabet == Range(Lowers) \cup Range(Digits)

Inserts(w) ==
  { SubSeq(w, 1, i) \o <<c>> \o SubSeq(w, i + 1, Len(w)) : i \in 0..Len(w), c \in KeyAlphabet }
Deletes(w) ==
  { SubSeq(w, 1, i - 1) \o SubSeq(w, i + 1, Len(w)) : i \in 1..Len(w) }
Substs(w) ==
  { [w EXCEPT ![i] = c] : i \in 1..Len(w), c \in KeyAlphabet } \ {w}
OneEdit(w) == Inserts(w) \cup Deletes(w) \cup Substs(w)

SampleStates ==
  { <<>>,
    <<"G","u","j","a","r","a","t">>,
    <<"P","u","n","j","a","b">>,
    <<"O","r","i","s","s","a">>,
    <<"N","c","t"," ","O","f"," ","D","e","l","h","i">>,
    <<"P","o","n","d","i","c","h","e","r","r","y">>,
    <<"J","a","m","m","u"," ","&"," ","K","a","s","h","m","i","r">>,
    <<"G","u","j","r","a","t">>,
    <<"G","u","j","a","r","a","t","h">>,
    <<"G","u","j","a","r","a","x">>,
    <<"A","n","d","h","r","a"," ","P","r","d","d","e","s","h">>,
    <<"T","a","m","i","l","n","a","d","u">>,
    <<"W","e","s","t"," ","B","a","n","g","a","l">>,
    <<"L","a","d","a","k","h">>,
    <<"X","y","z">>,
    <<"1","0","0","0","0","0">>,
    <<"1","2">>,
    <<"D","e","l","h","i">>,
    <<"C","h","a","n","d","i","g","a","r","h">>,
    <<"L","a","k","s","h","a","d","w","e","e","p","s">>,
    <<"K","e","r","a","l">> }
SampleDistricts ==
  { <<>>,
    <<"S","u","r","a","t">>,
    <<"L","e","h">>,
    <<"C","h","a","n","d","i","g","a","r","h">>,
    <<"S","o","u","t","h"," ","E","a","s","t"," ","D","e","l","h","i">>,
    <<"D","e","l","h","i"," ","C","a","n","t","t">>,
    <<"O","r","i","s","s","a">>,
    <<"P","u","n","j","a","b">>,
    <<"P","u","d","u","c","h","e","r","r","y">> }

RegionInit ==
  /\ \/ /\ rgState \in SampleStates \cup STATES_28_SET \cup UTS_8_SET
        /\ rgDistrict \in SampleDistricts
     \/ /\ rgState \in OneEdit(gujarat)
        /\ rgDistrict \in {<<>>, <<"S","u","r","a","t">>}
  /\ rgResult = <<>>
  /\ rgPc = "call"

Canonicalize ==
  /\ rgPc = "call"
  /\ rgResult' = canonicalize_region(rgState, rgDistrict)
  /\ rgPc' = "done"
  /\ UNCHANGED <<rgState, rgDistrict, dateVars, storeVars, mainVars>>

RegionNext == Canonicalize

InitRegion == RegionInit /\ DatesIdle /\ StoreIdle /\ MainIdle

SpecRegion == InitRegion /\ [][RegionNext]_vars

----------------------------------------------------------------------------
(* Claims about canonicalize_region                                        *)

\* the nine rules of the precedence chain, each as a test and an outcome
RuleMatches(n, sk, dk) ==
  CASE n = 1 -> AliasHit(sk)
    [] n = 2 -> ExactHit(sk)
    [] n = 3 -> dk \in Keys(UT_DISTRICT_MAP)
    [] n = 4 -> Contains(dk, delhi)
    [] n = 5 -> AliasHit(dk)
    [] n = 6 -> ExactHit(dk)
    [] n = 7 -> \E x \in Keys(STATE_KEY_TO_NAME) :
                  RatioAtLeast(ratio_matches(x, sk), Len(x) + Len(sk), CutoffNum, CutoffDen)
    [] n = 8 -> \E x \in Keys(UT_KEY_TO_NAME) :
                  RatioAtLeast(ratio_matches(x, sk), Len(x) + Len(sk), CutoffNum, CutoffDen)
    [] OTHER -> TRUE

RuleOutcomes(n, sk, dk) ==
  CASE n = 1 -> { AliasResult(sk) }
    [] n = 2 -> { ExactResult(sk) }
    [] n = 3 -> { <<"UT", Get(UT_DISTRICT_MAP, dk)>> }
    [] n = 4 -> { <<"UT", Delhi>> }
    [] n = 5 -> { AliasResult(dk) }
    [] n = 6 -> { ExactResult(dk) }
    [] n = 7 -> { <<"STATE", Get(STATE_KEY_TO_NAME, x)>> : x \in
                  { y \in Keys(STATE_KEY_TO_NAME) :
                      RatioAtLeast(ratio_matches(y, sk), Len(y) + Len(sk), CutoffNum, CutoffDen) } }
    [] n = 8 -> { <<"UT", Get(UT_KEY_TO_NAME, x)>> : x \in
                  { y \in Keys(UT_KEY_TO_NAME) :
                      RatioAtLeast(ratio_matches(y, sk), Len(y) + Len(sk), CutoffNum, CutoffDen) } }
    [] OTHER -> { UNKNOWN }

FirstRule(sk, dk) ==
  CHOOSE n \in 1..9 : RuleMatches(n, sk, dk) /\ \A m \in 1..(n - 1) : ~RuleMatches(m, sk, dk)

\* C8: canonicalize_region returns the outcome of the first rule that matches,
\* in the order alias(state), exact(state), district map, "delhi" in district,
\* alias(district), exact(district), fuzzy against states, fuzzy against UTs,
\* UNKNOWN; a later rule never overrides an earlier one that matches.
C8_FirstMatchWins ==
  rgPc = "done" =>
    rgResult \in RuleOutcomes(FirstRule(StateKey(rgState), DistrictKey(rgDistrict)),
                              StateKey(rgState), DistrictKey(rgDistrict))

\* a call in which an earlier and a later rule both match and disagree
C8_Witness ==
  /\ rgPc = "done"
  /\ \E n \in 1..8 : \E m \in (n + 1)..8 :
       LET sk == StateKey(rgState)
           dk == DistrictKey(rgDistrict)
       IN  /\ FirstRule(sk, dk) = n
           /\ RuleMatches(m, sk, dk)
           /\ RuleOutcomes(m, sk, dk) \cap RuleOutcomes(n, sk, dk) = {}
           /\ rgResult \in RuleOutcomes(n, sk, dk)

NoEarlierRule(sk, dk) == \A n \in 1..6 : ~RuleMatches(n, sk, dk)

\* C9 as stated: every key one edit (insertion, deletion or substitution) away
\* from "gujarat", with an empty district, resolves to (STATE, Gujarat).
C9_OneEditResolves ==
  (rgPc = "done" /\ DistrictKey(rgDistrict) = <<>>
     /\ StateKey(rgState) \in OneEdit(gujarat)
     /\ NoEarlierRule(StateKey(rgState), <<>>))
    => rgResult = <<"STATE", Gujarat>>

\* C9 as amended: with an empty district, a key made from "gujarat" by one
\* inserted or one deleted character (similarity 14/15, 12/13) resolves to
\* (STATE, Gujarat); a key made by one substituted character (similarity 12/14,
\* below 0.92) resolves to UNKNOWN; a fuzzy result always has similarity >= 0.92
\* to the key of the name returned; and a key that matches no alias, exact or
\* district rule and is below the cutoff against every canonical key is UNKNOWN.
C9_FuzzyCutoff ==
  (rgPc = "done" /\ NoEarlierRule(StateKey(rgState), DistrictKey(rgDistrict))) =>
    LET sk == StateKey(rgState)
        dk == DistrictKey(rgDistrict)
        allKeys == Keys(STATE_KEY_TO_NAME) \cup Keys(UT_KEY_TO_NAME)
        near(x) == RatioAtLeast(ratio_matches(x, sk), Len(x) + Len(sk), CutoffNum, CutoffDen)
    IN  /\ (dk = <<>> /\ sk \in Inserts(gujarat) \cup Deletes(gujarat))
             => rgResult = <<"STATE", Gujarat>>
        /\ (dk = <<>> /\ sk \in Substs(gujarat)) => rgResult = UNKNOWN
        /\ rgResult # UNKNOWN => \E x \in allKeys : near(x) /\ _key(rgResult[2]) = x
        /\ (\A x \in allKeys : ~near(x)) => rgResult = UNKNOWN

\* a key with one inserted character that the fuzzy rule resolved
C9_Witness ==
  /\ rgPc = "done"
  /\ DistrictKey(rgDistrict) = <<>>
  /\ StateKey(rgState) \in Inserts(gujarat) \ {gujarat}
  /\ NoEarlierRule(StateKey(rgState), <<>>)
  /\ rgResult = <<"STATE", Gujarat>>

----------------------------------------------------------------------------
(* One call of parse_dates_strong, stage by stage                          *)

MaxCol == 2

RawDates ==
  { <<"3","1",".","1","2",".","2","0","2","0">>,
    <<"1","2","/","3","1","/","2","0","2","0">>,
    <<"2","0","2","0","-","1","2","-","3","1">>,
    <<"0","3","-","0","4","-","2","0","2","1">>,
    <<"0","1","0","2","2","0","2","0">>,
    <<"2","0","2","0","1","2","3","1">>,
    <<"2","0","2","0","-","1","2","-","3","1","T","1","0",":","0","0">>,
    <<"n","a">>,
    <<" ","-"," ">>,
    <<"N","U","L","L">>,
    <<"1","3","-","1","3","-","2","0","2","0">>,
    NA }

RECURSIVE SeqsUpTo(_, _)
SeqsUpTo(S, n) ==
  IF n = 0 THEN { <<>> }
  ELSE SeqsUpTo(S, n - 1) \cup { Append(q, x) : q \in { p \in SeqsUpTo(S, n - 1) : Len(p) = n - 1 }, x \in S }

DatesInit ==
  /\ dtSeries \in SeqsUpTo(RawDates, MaxCol) \ { <<>> }
  /\ dtInfer \in BOOLEAN
  /\ dtS = <<>> /\ dtD = <<>> /\ dtFixed = <<>> /\ dtFmt = 0
  /\ dtPc = "normalize"

\* lines 208-224
DtNormalize ==
  /\ dtPc = "normalize"
  /\ dtS' = NormalizeDates(dtSeries)
  /\ dtPc' = "dayfirst"
  /\ UNCHANGED <<regionVars, storeVars, mainVars, dtSeries, dtInfer, dtD, dtFixed, dtFmt>>

\* line 226
DtDayFirst ==
  /\ dtPc = "dayfirst"
  /\ dtD' = StageDayFirst(dtS, dtInfer)
  /\ dtPc' = "monthfirst"
  /\ UNCHANGED <<regionVars, storeVars, mainVars, dtSeries, dtInfer, dtS, dtFixed, dtFmt>>

\* lines 228-231
DtMonthFirst ==
  /\ dtPc = "monthfirst"
  /\ dtD' = StageMonthFirst(dtS, dtD, dtInfer)
  /\ dtPc' = "formats"
  /\ UNCHANGED <<regionVars, storeVars, mainVars, dtSeries, dtInfer, dtS, dtFixed, dtFmt>>

\* lines 233-237: the loop is entered only when something is left to parse
DtStartFormats ==
  /\ dtPc = "formats"
  /\ IF Mask(dtS, dtD) # {}
     THEN dtFixed' = AllNaT(dtS) /\ dtFmt' = 1 /\ dtPc' = "loop"
     ELSE dtPc' = "done" /\ UNCHANGED <<dtFixed, dtFmt>>
  /\ UNCHANGED <<regionVars, storeVars, mainVars, dtSeries, dtInfer, dtS, dtD>>

\* lines 238-241
DtTryFormat ==
  /\ dtPc = "loop"
  /\ dtFmt <= Len(formats)
  /\ dtFixed' = FillFixed(dtS, Mask(dtS, dtD), dtFixed, formats[dtFmt])
  /\ dtFmt' = dtFmt + 1
  /\ UNCHANGED <<regionVars, storeVars, mainVars, dtSeries, dtInfer, dtS, dtD, dtPc>>

\* lines 242-244
DtAssign ==
  /\ dtPc = "loop"
  /\ dtFmt > Len(formats)
  /\ dtD' = AssignFixed(dtD, Mask(dtS, dtD), dtFixed)
  /\ dtPc' = "done"
  /\ UNCHANGED <<regionVars, storeVars, mainVars, dtSeries, dtInfer, dtS, dtFixed, dtFmt>>

DatesNext ==
  DtNormalize \/ DtDayFirst \/ DtMonthFirst \/ DtStartFormats \/ DtTryFormat \/ DtAssign

InitDates == DatesInit /\ RegionIdle /\ StoreIdle /\ MainIdle

SpecDates == InitDates /\ [][DatesNext]_vars

----------------------------------------------------------------------------
(* Claims about parse_dates_strong                                         *)

\* the date position i holds so far: what d holds, or inside the loop over
\* the formats what fixed holds
DateSoFar(i) ==
  IF dtPc \in {"normalize", "dayfirst"} THEN NaT
  ELSE IF dtD[i] # NaT THEN dtD[i]
  ELSE IF dtPc = "loop" THEN dtFixed[i]
  ELSE NaT

\* no stage can parse the text: neither format-free parse, none of the formats
NoStageParses(t) ==
  \/ t = NA
  \/ /\ ParseOne(t, TRUE) = NaT
     /\ ParseOne(t, FALSE) = NaT
     /\ \A k \in DOMAIN formats : strptime(t, formats[k]) = NaT

\* C10: each stage assigns only values no earlier stage resolved: a date set
\* by an earlier stage or an earlier format is never changed, a placeholder
\* (missing) value never gets a date, a value no stage parses ends as missing,
\* and the result is that of the function as a whole.
C10_StagesOnlyFill ==
  /\ [][\A i \in DOMAIN dtSeries :
          /\ DateSoFar(i) # NaT => DateSoFar(i)' = DateSoFar(i)
          /\ NormalizeDate(dtSeries[i]) = NA => DateSoFar(i)' = NaT]_vars
  /\ [](dtPc = "done" =>
          /\ \A i \in DOMAIN dtSeries : NoStageParses(dtS[i]) => dtD[i] = NaT
          /\ dtD = parse_dates_strong(dtSeries, dtInfer))

\* a finished call with a date that a later stage or format would have parsed
\* differently, next to a placeholder left missing
C10_Witness ==
  /\ dtPc = "done"
  /\ \E i \in DOMAIN dtSeries :
       /\ dtD[i] # NaT
       /\ \/ ParseOne(dtS[i], FALSE) \notin {NaT, dtD[i]}
          \/ \E k \in DOMAIN formats : strptime(dtS[i], formats[k]) \notin {NaT, dtD[i]}
  /\ \E j \in DOMAIN dtSeries : dtS[j] = NA /\ dtD[j] = NaT

----------------------------------------------------------------------------
(* Calls of merge_write_dataset on one table                               *)

MaxCalls == 2

Surat == <<"S","u","r","a","t">>
Anand == <<"A","n","a","n","d">>

\* rows as clean_dataframe and main hand them over: title-cased names, a
\* pincode of digits (empty when the cell had none), a parsed date, a number
StoreRow(district, pincode, date, metric) ==
  [state |-> Gujarat, district |-> district, pincode |-> pincode,
   date |-> date, metric |-> metric]

StoreRows ==
  { StoreRow(Surat, <<"1","0">>, <<2020, 12, 31, 0>>, <<1>>),
    StoreRow(Surat, <<"1","0">>, <<2020, 12, 31, 0>>, <<2>>),
    StoreRow(Surat, <<"1","0">>, <<2020, 12, 31, 10>>, <<1>>),
    StoreRow(Anand, <<>>, <<2021, 4, 3, 0>>, NaN) }

\* a batch: one or two of them, in either order
Batches == { <<r>> : r \in StoreRows } \cup { <<r, q>> : r \in StoreRows, q \in StoreRows }

StoreInit ==
  /\ stFile = Absent /\ stPrev = Absent
  /\ stRows = <<>> /\ stConcat = <<>> /\ stKept = <<>>
  /\ stOutcome = "none" /\ stRepeat = FALSE /\ stCalls = 0

\* merge_write_dataset(region_folder, dataset, sdf) runs to its end
MergeWrite ==
  /\ stOutcome # "failed"
  /\ stCalls < MaxCalls
  /\ \E sdf \in Batches : \E infer \in BOOLEAN :
     \E call \in { merge_write_dataset(stFile, sdf, infer) } :
       /\ stConcat' = call.combined
       /\ stKept' = call.kept
       /\ stFile' = call.file
       /\ stRepeat' = (stOutcome = "written" /\ sdf = stRows)
       /\ stRows' = sdf
  /\ stPrev' = stFile
  /\ stOutcome' = "written"
  /\ stCalls' = stCalls + 1
  /\ UNCHANGED <<regionVars, dateVars, mainVars>>

\* merge_write_dataset raises inside to_csv (line 382); nothing catches it
MergeWriteFails ==
  /\ stOutcome # "failed"
  /\ stCalls < MaxCalls
  /\ \E sdf \in Batches : \E infer \in BOOLEAN :
     \E call \in { merge_write_dataset(stFile, sdf, infer) } :
       /\ stConcat' = call.combined
       /\ stKept' = call.kept
       /\ stFile' \in PartialWrites(stFile, call.file)
       /\ stRows' = sdf
  /\ stRepeat' = FALSE
  /\ stPrev' = stFile
  /\ stOutcome' = "failed"
  /\ stCalls' = stCalls + 1
  /\ UNCHANGED <<regionVars, dateVars, mainVars>>

StoreNext == MergeWrite \/ MergeWriteFails

InitStore == StoreInit /\ RegionIdle /\ DatesIdle /\ MainIdle

SpecStore == InitStore /\ [][StoreNext]_vars

----------------------------------------------------------------------------
(* Claims about merge_write_dataset                                        *)

\* C1: merge_write_dataset(k, rows) called again at once with the same rows
\* leaves the persisted table as the first call left it.
C1_Idempotent == stRepeat => stFile = stPrev

\* C2: the persisted table never holds two rows equal in all columns, and
\* merging rows the table was just given again does not add rows.
C2_NoDuplicateRows ==
  /\ \A i \in DOMAIN stFile.rows : \A j \in DOMAIN stFile.rows :
       stFile.rows[i] = stFile.rows[j] => i = j
  /\ stRepeat => Len(stFile.rows) = Len(stPrev.rows)

\* the order of the cells of two persisted rows, as texts
CsvKeyLess(a, b) ==
  \/ StrLess(a.district, b.district)
  \/ a.district = b.district /\ StrLess(a.pincode, b.pincode)
  \/ a.district = b.district /\ a.pincode = b.pincode /\ StrLess(a.date, b.date)

FirstIndex(df, r) == CHOOSE i \in DOMAIN df : df[i] = r /\ \A j \in 1..(i - 1) : df[j] # r

C6_NoPartialTable ==
  stOutcome = "failed" => stFile \in {stPrev, Csv(to_csv(stKept))}

----------------------------------------------------------------------------
(* A run of main                                                           *)

MaxFiles == 2

\* input files: records with a date that is a placeholder, a region nothing
\* resolves, a state, a territory found by its district, the same record
\* spelled in two ways, and a file without the date column
SampleFiles ==
  { [name |-> <<"d","e","m","o","_","a",".","c","s","v">>,
     header |-> <<<<"S","t","a","t","e">>, <<"D","i","s","t","r","i","c","t">>, <<"P","i","n","c","o","d","e">>, <<" ","D","a","t","e">>, <<"C","o","u","n","t">>>>,
     rows |-> <<<<<<"g","u","j","a","r","a","t">>, <<"s","u","r","a","t">>, <<"1","0">>, <<"3","1",".","1","2",".","2","0","2","0">>, <<"5">>>>,
                <<<<"G","u","j","a","r","a","t">>, <<"S","u","r","a","t">>, <<"1","0">>, <<"n","a">>, <<"1">>>>>>],
    [name |-> <<"D","e","m","o","g","r","a","p","h","i","c","_","b",".","c","s","v">>,
     header |-> <<<<"S","t","a","t","e">>, <<"D","i","s","t","r","i","c","t">>, <<"P","i","n","c","o","d","e">>, <<" ","D","a","t","e">>, <<"C","o","u","n","t">>>>,
     rows |-> <<<<<<"G","U","J","A","R","A","T"," ">>, <<"s","u","r","a","t">>, <<"1","0">>, <<"2","0","2","0","-","1","2","-","3","1">>, <<"5">>>>,
                <<<<>>, <<"n","e","w"," ","d","e","l","h","i">>, <<"2","0">>, <<"1","2","/","3","1","/","2","0","2","0">>, <<"7">>>>>>],
    [name |-> <<"e","n","r","o","l",".","c","s","v">>,
     header |-> <<<<"S","t","a","t","e">>, <<"D","i","s","t","r","i","c","t">>, <<"P","i","n","c","o","d","e">>, <<" ","D","a","t","e">>, <<"C","o","u","n","t">>>>,
     rows |-> <<<<<<"A","t","l","a","n","t","i","s">>, <<>>, <<"1">>, <<"2","0","2","0","-","1","2","-","3","1">>, <<"2">>>>,
                <<<<"g","u","j","a","r","a","t">>, <<"a","n","a","n","d">>, <<>>, <<"2","0","2","1","-","0","4","-","0","3">>, <<>>>>,
                <<<<>>, <<"n","e","w"," ","d","e","l","h","i">>, <<"2","0">>, <<"-","-">>, <<"4">>>>>>],
    [name |-> <<"b","i","o",".","c","s","v">>,
     header |-> <<<<"S","t","a","t","e">>, <<"D","i","s","t","r","i","c","t">>, <<"P","i","n","c","o","d","e">>, <<"C","o","u","n","t">>>>,
     rows |-> <<<<<<"g","u","j","a","r","a","t">>, <<"s","u","r","a","t">>, <<"1","0">>, <<"5">>>>>>],
    [name |-> <<"d","e","m","o","_","c",".","c","s","v">>,
     header |-> <<<<"S","t","a","t","e">>, <<"D","i","s","t","r","i","c","t">>, <<"P","i","n","c","o","d","e">>, <<" ","D","a","t","e">>, <<"C","o","u","n","t">>>>,
     rows |-> <<<<<<"d","e","l","h","i">>, <<>>, <<"2","0">>, <<"2","0","2","0","-","1","2","-","3","1">>, <<"7">>>>,
                <<<<"G","u","j","a","r","a","t">>, <<"A","n","a","n","d">>, <<>>, <<"0","3","-","0","4","-","2","0","2","1">>, <<"3">>>>>>] }

\* the orders os.listdir can give the files of a folder in
RECURSIVE Listings(_)
Listings(folder) ==
  IF folder = {} THEN { <<>> }
  ELSE UNION { { <<f>> \o rest : rest \in Listings(folder \ {f}) } : f \in folder }

MainInit ==
  /\ mnInput \in { folder \in SUBSET SampleFiles : Cardinality(folder) <= MaxFiles }
  /\ mnInfer \in BOOLEAN
  /\ mnFiles = <<>> /\ mnPc = "start" /\ mnDone = 0 /\ mnError = "none"
  /\ mnTables = {} /\ mnCounts = NoCounts /\ mnReport = <<>>

\* lines 440-443: no CSV file in INPUT_DIR, main returns
NoFiles ==
  /\ mnPc = "start" /\ mnInput = {}
  /\ mnPc' = "done"
  /\ UNCHANGED <<regionVars, dateVars, storeVars,
                 mnInput, mnFiles, mnInfer, mnDone, mnError, mnTables, mnCounts, mnReport>>

\* lines 440-452
ListFiles ==
  /\ mnPc = "start" /\ mnInput # {}
  /\ mnFiles' \in Listings(mnInput)
  /\ mnCounts' = NoCounts
  /\ mnPc' = "loop"
  /\ UNCHANGED <<regionVars, dateVars, storeVars,
                 mnInput, mnInfer, mnDone, mnError, mnTables, mnReport>>

\* lines 454-533: one pass of the loop, every call in it returning
ProcessFile ==
  /\ mnPc = "loop" /\ mnDone < Len(mnFiles)
  /\ missing(mnFiles[mnDone + 1]) = {}
  /\ \E pass \in { Pass(mnFiles[mnDone + 1], mnInfer) } :
       /\ mnTables' = WriteAll(mnTables, pass.writes, mnInfer)
       /\ mnCounts' = AddCounts(mnCounts, pass)
  /\ mnDone' = mnDone + 1
  /\ UNCHANGED <<regionVars, dateVars, storeVars,
                 mnInput, mnFiles, mnInfer, mnPc, mnError, mnReport>>

\* lines 454-461: clean_dataframe raises ValueError (line 312); main has no
\* handler, the run ends there
ProcessFileRaises ==
  /\ mnPc = "loop" /\ mnDone < Len(mnFiles)
  /\ missing(mnFiles[mnDone + 1]) # {}
  /\ mnPc' = "raised"
  /\ mnError' = "ValueError"
  /\ UNCHANGED <<regionVars, dateVars, storeVars,
                 mnInput, mnFiles, mnInfer, mnDone, mnTables, mnCounts, mnReport>>

\* lines 454-522: the to_csv of one of the calls of merge_write_dataset
\* raises; the calls before it have returned, the run ends there
ProcessFileWriteFails ==
  /\ mnPc = "loop" /\ mnDone < Len(mnFiles)
  /\ missing(mnFiles[mnDone + 1]) = {}
  /\ \E pass \in { Pass(mnFiles[mnDone + 1], mnInfer) } :
     \E k \in DOMAIN pass.writes :
     \E before \in { WriteAll(mnTables, SubSeq(pass.writes, 1, k - 1), mnInfer) } :
     \E left \in PartialWrites(TableAt(before, pass.writes[k].path),
                               merge_write_dataset(TableAt(before, pass.writes[k].path),
                                                   pass.writes[k].sdf, mnInfer).file) :
       mnTables' = Put(before, pass.writes[k].path, left)
  /\ mnPc' = "raised"
  /\ mnError' = "OSError"
  /\ UNCHANGED <<regionVars, dateVars, storeVars,
                 mnInput, mnFiles, mnInfer, mnDone, mnCounts, mnReport>>

\* lines 535-579: the loop is over, the report is written
WriteReport ==
  /\ mnPc = "loop" /\ mnDone = Len(mnFiles)
  /\ mnReport' = SanityLine(mnCounts)
  /\ mnPc' = "cleanup"
  /\ UNCHANGED <<regionVars, dateVars, storeVars,
                 mnInput, mnFiles, mnInfer, mnDone, mnError, mnTables, mnCounts>>

\* lines 535-579: write_report raises (line 427, the report file cannot be
\* opened or written); main has no handler, the run ends there
WriteReportRaises ==
  /\ mnPc = "loop" /\ mnDone = Len(mnFiles)
  /\ mnPc' = "raised"
  /\ mnError' = "OSError"
  /\ UNCHANGED <<regionVars, dateVars, storeVars,
                 mnInput, mnFiles, mnInfer, mnDone, mnTables, mnCounts, mnReport>>

\* a cleanup that also runs when the run has raised
CleanupAnyway ==
  /\ mnPc \in {"cleanup", "raised"} /\ mnInput # {}
  /\ mnInput' \in SUBSET mnInput
  /\ mnPc' = IF mnPc = "cleanup" THEN "done" ELSE mnPc
  /\ UNCHANGED <<regionVars, dateVars, storeVars,
                 mnFiles, mnInfer, mnDone, mnError, mnTables, mnCounts, mnReport>>

\* lines 585-586: cleanup_input_folder removes the CSV files; one it cannot
\* remove (lines 407-408) stays
Cleanup ==
  /\ mnPc = "cleanup"
  /\ mnInput' \in SUBSET mnInput
  /\ mnPc' = "done"
  /\ UNCHANGED <<regionVars, dateVars, storeVars,
                 mnFiles, mnInfer, mnDone, mnError, mnTables, mnCounts, mnReport>>

Next ==
  \/ NoFiles \/ ListFiles \/ ProcessFile \/ ProcessFileRaises \/ ProcessFileWriteFails
  \/ WriteReport \/ WriteReportRaises \/ Cleanup

Init == MainInit /\ RegionIdle /\ DatesIdle /\ StoreIdle

Spec == Init /\ [][Next]_vars

\* the cleaned frames of the files the loop has reached so far
Reached == { k \in DOMAIN mnFiles : k <= mnDone + 1 /\ missing(mnFiles[k]) = {} }
CleanedRows ==
  UNION { Range(clean_dataframe(mnFiles[k], mnInfer)) : k \in Reached }

\* C4: no record without a parsed date and no record without a resolved
\* region is ever written: every table file is keyed by one of the 28 state
\* names or one of the 8 territory names, and each of its rows has a date and
\* comes from a cleaned record that has this date and resolves to this region
C4_OnlyDatedMappedPersisted ==
  \E cleaned \in { CleanedRows } :
    \A e \in mnTables :
      /\ \/ e[1][1] = "STATE" /\ e[1][2] \in STATES_28_SET
         \/ e[1][1] = "UT" /\ e[1][2] \in UTS_8_SET
      /\ \A i \in DOMAIN e[2].rows :
           /\ e[2].rows[i].date # <<>>
           /\ \E c \in cleaned :
                /\ c.date # NaT /\ strftime(c.date) = e[2].rows[i].date
                /\ c._region_type = e[1][1] /\ c._region_name = e[1][2]
                /\ c.district = e[2].rows[i].district

C4_Witness ==
  /\ mnPc = "done" /\ mnError = "none"
  /\ mnCounts.OMIT_INVALID_DATE > 0 /\ mnCounts.OMIT_UNMAPPED_REGION > 0
  /\ \E e \in mnTables : e[1][1] = "STATE" /\ Len(e[2].rows) > 0
  /\ \E e \in mnTables : e[1][1] = "UT" /\ Len(e[2].rows) > 0

\* the number of records read from the files the loop has finished
RECURSIVE RecordsRead(_)
RecordsRead(n) == IF n = 0 THEN 0 ELSE RecordsRead(n - 1) + Len(mnFiles[n].rows)

\* C5: after each file and at the end of the run, every record read is
\* counted in exactly one of the five outcome counters: STATE_WRITTEN +
\* UT_WRITTEN + OMIT_INVALID_DATE + OMIT_UNMAPPED_REGION +
\* OMIT_MAPPED_NOT_ALLOWED = TOTAL_READ, TOTAL_READ is the number of records
\* of the files processed, and the report's sanity line shows equal numbers
C5_CountersAccount ==
  /\ total_accounted(mnCounts) = mnCounts.TOTAL_READ
  /\ mnCounts.TOTAL_READ = RecordsRead(mnDone)
  /\ \A c \in {"STATE_WRITTEN", "UT_WRITTEN", "OMIT_INVALID_DATE",
               "OMIT_UNMAPPED_REGION", "OMIT_MAPPED_NOT_ALLOWED"} : mnCounts[c] >= 0
  /\ mnReport # <<>> => mnReport[1] = mnReport[2] /\ mnReport[2] = RecordsRead(Len(mnFiles))

C5_Witness ==
  /\ mnPc = "done" /\ mnReport # <<>> /\ mnDone = MaxFiles
  /\ mnCounts.STATE_WRITTEN > 0 /\ mnCounts.UT_WRITTEN > 0
  /\ mnCounts.OMIT_INVALID_DATE > 0 /\ mnCounts.OMIT_UNMAPPED_REGION > 0

\* C7: a file without one of the required columns ends the processing of that
\* file only: when the run is over (and no write failed), every other input
\* file has been processed
C7_OtherFilesProcessed ==
  (mnPc \in {"done", "raised"} /\ mnError # "OSError")
    => \A k \in DOMAIN mnFiles : missing(mnFiles[k]) = {} => k <= mnDone

\* C11: the input files are deleted only by the cleanup at the end of main,
\* after every listed file has been processed and the report has been
\* written: a step changes the input folder only from that position, and
\* whenever the folder differs from the listing the run has ended without an
\* exception; a run that raised still has every original input file
C11_CleanupOnlyAfterSuccess ==
  /\ [][mnInput' # mnInput =>
          /\ mnPc = "cleanup" /\ mnError = "none"
          /\ mnDone = Len(mnFiles) /\ mnReport = SanityLine(mnCounts)
          /\ mnInput' \subseteq mnInput]_vars
  /\ [](mnPc # "start" /\ mnInput # Range(mnFiles) =>
          mnPc = "done" /\ mnError = "none" /\ mnDone = Len(mnFiles) /\ mnReport # <<>>)
  /\ [](mnPc = "raised" => mnInput = Range(mnFiles) /\ mnReport = <<>>)

C11_Witness ==
  /\ mnPc = "done" /\ mnInput = {} /\ Len(mnFiles) = MaxFiles
  /\ mnDone = Len(mnFiles) /\ mnReport # <<>>
=============================================================================
